---- MODULE Spec2Model ----
(***************************************************************************)
(* A model of the tool-augmented agent loop of src/hello_agent.py: the     *)
(* session configuration commands, the capability gate, the tool registry *)
(* and the recursive llm_interaction protocol.                             *)
(*                                                                         *)
(* Text is modelled by TLA+ strings, Python truthiness of a string by      *)
(* comparison with "", a Python list by a sequence and a dict by a         *)
(* function.  An uncaught Python exception ends the process: the model     *)
(* records it in `exception` and moves to pc = "crashed".                  *)
(***************************************************************************)
EXTENDS Integers, Sequences, FiniteSets, TLC

VARIABLES
    llm_config,         \* AgentContext.llm_config: [model, isThinking, isStreaming]
    allowed_config,     \* AgentContext.allowed_config: [streaming, thinking]
    model_capabilities, \* AgentContext.model_capabilities: list of tags
    native_tools,       \* names of AgentContext.native_tools
    mcp_tools,          \* names of AgentContext.mcp_tools
    messages,           \* AgentContext.messages: the conversation history
    pc,                 \* position of main(): start, repl, llm_call, tools, crashed, exit
    frames,             \* invocations of llm_interaction of the current turn, outermost first
    user_input,         \* main's user_input: the latest line read at the prompt
    chat_calls,         \* calls of the inference service during the current turn:
                        \* the request, and the reply the service gave
    tool_log,           \* tool dispatches of the current turn, in order
    out,                \* lines printed by the command handlers for the latest input
    exception,          \* the uncaught exception that ended the process, "" if none
    heap                \* the objects AgentContext instances made with the default
                        \* arguments refer to, and these instances:
                        \* [configs, lists, contexts, actor]

main_vars == <<llm_config, allowed_config, model_capabilities, native_tools, mcp_tools,
               messages, pc, frames, user_input, chat_calls, tool_log, out, exception>>

vars == <<main_vars, heap>>

config_vars == <<llm_config, allowed_config, model_capabilities>>
tool_vars == <<native_tools, mcp_tools>>
turn_vars == <<frames, chat_calls, tool_log>>

-----------------------------------------------------------------------------
(* Bounds of the model *)

\* chunks in one response of the inference service during a session
MaxChunks == 1
\* chunks in one response when llm_call is examined on its own
MaxStream == 3
\* a user turn starts only while the history is shorter than this
MaxHistory == 3
\* inference calls in one turn (the code itself sets no ceiling)
MaxDepth == 2

-----------------------------------------------------------------------------
(* Values exchanged with the collaborators *)

DEFAULT_MODEL == "qwen3:4b"

\* models the inference service lists
Models == {DEFAULT_MODEL, "gemma3:1b"}

None == "None"

\* capability lists a show() call can return
CapabilityLists ==
    { <<"completion", "tools">>, <<"completion", "thinking">>, <<"Think">> }

\* str.lower() on the capability tags in use
Lower(c) == CASE c = "Think" -> "think"
              [] OTHER -> c

NoArgs == <<>>

\* tool-call requests the model can emit: [name, arguments]
ToolCallRequests ==
    { [name |-> "hello_tool", arguments |-> NoArgs],
      [name |-> "hello_tool", arguments |-> [city |-> "Oslo"]],
      [name |-> "greet", arguments |-> [name |-> "Ford"]],
      [name |-> "nonexistent_tool", arguments |-> NoArgs] }

EmptyMessage == [thinking |-> "", content |-> "", tool_calls |-> <<>>]

\* chunks of a streamed response: each carries exactly one kind of payload
Chunks ==
    { [EmptyMessage EXCEPT !.thinking = t] : t \in {"t"} }
    \cup { [EmptyMessage EXCEPT !.content = c] : c \in {"a"} }
    \cup { [EmptyMessage EXCEPT !.tool_calls = <<r>>] : r \in ToolCallRequests }
    \cup { [EmptyMessage EXCEPT !.tool_calls =
                << [name |-> "hello_tool", arguments |-> NoArgs],
                   [name |-> "greet", arguments |-> [name |-> "Ford"]] >>] }

SeqsUpTo(S, n) == UNION { [1..k -> S] : k \in 0..n }

\* the responses the inference service can give, as chunk sequences
Replies == SeqsUpTo(Chunks, MaxChunks)

StreamReplies == SeqsUpTo(Chunks, MaxStream)

\* tool sets the remote provider can announce at discovery
McpDiscoveries == { {"greet"}, {"greet", "hello_tool"} }

\* results of a remote invocation: [isError, structuredContent]
McpResults ==
    { [isError |-> TRUE, structuredContent |-> <<>>],
      [isError |-> FALSE, structuredContent |-> [result |-> "Hello from MCP Server to Ford!"]],
      [isError |-> FALSE, structuredContent |-> <<>>] }

\* results of capabilities query show(): failure, or a capability list
ShowResults ==
    { [ok |-> FALSE, capabilities |-> <<>>] }
    \cup { [ok |-> TRUE, capabilities |-> c] : c \in CapabilityLists }

\* what configure_model can return: a listed model, or None
Selections == Models \cup {None}

\* lines the user can enter at the prompt (after strip().lower())
UserInputs ==
    { "hi", "/bye", "/clear", "/config", "/config model",
      "/config streaming", "/config streaming on", "/config streaming off",
      "/config streaming maybe",
      "/config thinking", "/config thinking on", "/config thinking off",
      "/config foo", "/config foo on" }

\* str.split() on the inputs in use
Split(cmd) ==
    CASE cmd = "/config" -> <<"/config">>
      [] cmd = "/config model" -> <<"/config", "model">>
      [] cmd = "/config streaming" -> <<"/config", "streaming">>
      [] cmd = "/config streaming on" -> <<"/config", "streaming", "on">>
      [] cmd = "/config streaming off" -> <<"/config", "streaming", "off">>
      [] cmd = "/config streaming maybe" -> <<"/config", "streaming", "maybe">>
      [] cmd = "/config thinking" -> <<"/config", "thinking">>
      [] cmd = "/config thinking on" -> <<"/config", "thinking", "on">>
      [] cmd = "/config thinking off" -> <<"/config", "thinking", "off">>
      [] cmd = "/config foo" -> <<"/config", "foo">>
      [] cmd = "/config foo on" -> <<"/config", "foo", "on">>
      [] OTHER -> <<cmd>>

\* cmd.startswith("/config") on the inputs in use
StartsWithConfig(cmd) == Head(Split(cmd)) = "/config"

-----------------------------------------------------------------------------
(* llm_call: consuming the response of the inference service *)

\* one iteration of the chunk loop of the streaming branch
StreamChunk(acc, msg) ==
    IF msg.thinking # "" THEN
        IF acc.thinking = ""
            THEN [acc EXCEPT !.thinking = @ \o msg.thinking]
            ELSE acc
    ELSE IF msg.content # "" THEN
        IF acc.content = ""
            THEN [acc EXCEPT !.content = @ \o msg.content]
            ELSE acc
    ELSE IF msg.tool_calls # <<>> THEN
        [acc EXCEPT !.tool_calls = @ \o msg.tool_calls]
    ELSE acc

RECURSIVE StreamLoop(_, _)
\* async for chunk in stream
StreamLoop(acc, chunks) ==
    IF chunks = <<>> THEN acc
    ELSE StreamLoop(StreamChunk(acc, Head(chunks)), Tail(chunks))

\* the non-streaming branch: the single response message
SingleResponse(msg) ==
    LET a1 == IF msg.thinking # ""
                THEN [EmptyMessage EXCEPT !.thinking = @ \o msg.thinking]
                ELSE EmptyMessage
        a2 == IF msg.content # ""
                THEN [a1 EXCEPT !.content = @ \o msg.content]
                ELSE a1
    IN  IF msg.tool_calls # <<>>
            THEN [a2 EXCEPT !.tool_calls = @ \o msg.tool_calls]
            ELSE a2

RECURSIVE ConcatThinking(_)
ConcatThinking(chunks) ==
    IF chunks = <<>> THEN "" ELSE Head(chunks).thinking \o ConcatThinking(Tail(chunks))

RECURSIVE ConcatContent(_)
ConcatContent(chunks) ==
    IF chunks = <<>> THEN "" ELSE Head(chunks).content \o ConcatContent(Tail(chunks))

RECURSIVE ConcatToolCalls(_)
ConcatToolCalls(chunks) ==
    IF chunks = <<>> THEN <<>> ELSE Head(chunks).tool_calls \o ConcatToolCalls(Tail(chunks))

\* the one message the service sends, with stream=False, for what it would
\* stream as `chunks`
WholeResponse(chunks) ==
    [thinking |-> ConcatThinking(chunks),
     content |-> ConcatContent(chunks),
     tool_calls |-> ConcatToolCalls(chunks)]

\* llm_call with the tool-call requests of the response lost
llm_call_without_tools(isStreaming, chunks) ==
    LET acc == IF isStreaming
                 THEN StreamLoop(EmptyMessage, chunks)
                 ELSE SingleResponse(WholeResponse(chunks))
    IN  [role |-> "assistant", thinking |-> acc.thinking,
         content |-> acc.content, tool_calls |-> <<>>]

\* the dict llm_call returns
llm_call(isStreaming, chunks) ==
    LET acc == IF isStreaming
                 THEN StreamLoop(EmptyMessage, chunks)
                 ELSE SingleResponse(WholeResponse(chunks))
    IN  [role |-> "assistant", thinking |-> acc.thinking,
         content |-> acc.content, tool_calls |-> acc.tool_calls]

-----------------------------------------------------------------------------
(* The tool registry *)

\* hello_tool(**fun_args): a keyword it does not accept raises TypeError
hello_tool(fun_args) ==
    IF DOMAIN fun_args \subseteq {"model_name"}
        THEN [exc |-> "",
              value |-> "Hello from hello_tool by "
                        \o (IF "model_name" \in DOMAIN fun_args
                               THEN fun_args["model_name"] ELSE "Llm Assistant")]
        ELSE [exc |-> "TypeError", value |-> ""]

\* AgentContext.get_all_tools: {**native_tools, **mcp_tools}.  An entry is
\* named after the set it comes from; a key of the second dictionary
\* overwrites the same key of the first.
get_all_tools(native, mcp) ==
    [n \in native \cup mcp |-> IF n \in mcp THEN "mcp" ELSE "native"]

\* call_tool that looks in mcp_tools before native_tools
call_tool_remote_first(native, mcp, fun_name, fun_args, tool_res) ==
    IF fun_name \in mcp THEN
        IF tool_res.isError
            THEN [exc |-> "NameError", value |-> "", via |-> "mcp"]
            ELSE [exc |-> "",
                  value |-> IF "result" \in DOMAIN tool_res.structuredContent
                              THEN tool_res.structuredContent["result"] ELSE "",
                  via |-> "mcp"]
    ELSE IF fun_name \in native THEN
        hello_tool(fun_args) @@ [via |-> "native"]
    ELSE
        [exc |-> "NameError", value |-> "", via |-> "none"]

\* AgentContext.call_tool; tool_res is what the remote provider would answer.
\* `via` records which implementation was reached.
call_tool(native, mcp, fun_name, fun_args, tool_res) ==
    IF fun_name \in native THEN
        hello_tool(fun_args) @@ [via |-> "native"]
    ELSE IF fun_name \in mcp THEN
        IF tool_res.isError
            \* the f-string names fn_name, which is not defined
            THEN [exc |-> "NameError", value |-> "", via |-> "mcp"]
            ELSE [exc |-> "",
                  value |-> IF "result" \in DOMAIN tool_res.structuredContent
                              THEN tool_res.structuredContent["result"] ELSE "",
                  via |-> "mcp"]
    ELSE
        \* the f-string names fn_name, which is not defined
        [exc |-> "NameError", value |-> "", via |-> "none"]

-----------------------------------------------------------------------------
(* The capability gate and the command handlers.  They work on the fields  *)
(* of the AgentContext they read and write, gathered in a record ctx:      *)
(* llm_config, allowed_config, model_capabilities, messages, plus the      *)
(* lines printed (out) and the exception raised, if any.                   *)

Echo(ctx, line) == [ctx EXCEPT !.out = Append(@, line)]

OnOff(flag) == IF flag THEN "on" ELSE "off"

\* AgentContext._update_allowed_config
update_allowed_config(ctx) ==
    LET c1 == [ctx EXCEPT !.allowed_config.thinking = TRUE]
        caps == { Lower(c1.model_capabilities[i]) : i \in DOMAIN c1.model_capabilities }
    IN  IF "think" \notin caps /\ "thinking" \notin caps
        THEN LET c2 == [c1 EXCEPT !.allowed_config.thinking = FALSE]
             IN  IF c2.llm_config.isThinking
                 THEN [Echo(Echo(c2, c2.llm_config.model \o " does not support thinking"),
                             "Thinking set to off")
                        EXCEPT !.llm_config.isThinking = FALSE]
                 ELSE c2
        ELSE c1

\* AgentContext.load_model_capabilities; show is the outcome of llm_client.show
load_model_capabilities(ctx, show) ==
    IF show.ok
    THEN Echo(update_allowed_config([ctx EXCEPT !.model_capabilities = show.capabilities]),
               ctx.llm_config.model \o " has capabilites")
    ELSE [Echo(ctx, "Failed to retrieve capabilities for model '"
                      \o ctx.llm_config.model \o "'")
            EXCEPT !.model_capabilities = <<>>]

\* the guard of consume_command_config_model
IsModelCommand(cmd_parts) ==
    IF Len(cmd_parts) = 1 THEN TRUE ELSE cmd_parts[2] = "model"

\* consume_command_config_model; selected is what configure_model returns
consume_command_config_model(ctx, cmd_parts, selected, show) ==
    IF IsModelCommand(cmd_parts)
    THEN [ret |-> TRUE,
          ctx |-> IF selected # None
                    THEN Echo(load_model_capabilities(
                                   [ctx EXCEPT !.llm_config.model = selected], show),
                               "Model set to: " \o selected)
                    ELSE ctx]
    ELSE [ret |-> FALSE, ctx |-> ctx]

\* consume_command_config_streaming whose bare form turns streaming on
\* instead of inverting it
consume_command_config_streaming_turns_on(ctx, sub_cmd, value, len_parts) ==
    IF sub_cmd # "streaming" THEN [ret |-> FALSE, ctx |-> ctx]
    ELSE IF value \in {"on", "off"} THEN
        LET c == [ctx EXCEPT !.llm_config.isStreaming = (value = "on")]
        IN  [ret |-> TRUE,
             ctx |-> Echo(c, "Streaming set to " \o OnOff(c.llm_config.isStreaming))]
    ELSE IF len_parts = 2 THEN
        LET c == [ctx EXCEPT !.llm_config.isStreaming = TRUE]
        IN  [ret |-> TRUE,
             ctx |-> Echo(c, "Streaming set to " \o OnOff(c.llm_config.isStreaming))]
    ELSE
        [ret |-> FALSE,
         ctx |-> [Echo(ctx, "Usage: /config streaming [on|off]")
                    EXCEPT !.exception = "UnboundLocalError"]]

\* consume_command_config_streaming that inverts the flag whatever the value
consume_command_config_streaming_inverts(ctx, sub_cmd, value, len_parts) ==
    IF sub_cmd # "streaming" THEN [ret |-> FALSE, ctx |-> ctx]
    ELSE IF value \in {"on", "off"} \/ len_parts = 2 THEN
        LET c == [ctx EXCEPT !.llm_config.isStreaming = ~ @]
        IN  [ret |-> TRUE,
             ctx |-> Echo(c, "Streaming set to " \o OnOff(c.llm_config.isStreaming))]
    ELSE
        [ret |-> FALSE,
         ctx |-> [Echo(ctx, "Usage: /config streaming [on|off]")
                    EXCEPT !.exception = "UnboundLocalError"]]

\* consume_command_config_streaming
consume_command_config_streaming(ctx, sub_cmd, value, len_parts) ==
    IF sub_cmd # "streaming" THEN [ret |-> FALSE, ctx |-> ctx]
    ELSE IF value \in {"on", "off"} THEN
        LET c == [ctx EXCEPT !.llm_config.isStreaming = (value = "on")]
        IN  [ret |-> TRUE,
             ctx |-> Echo(c, "Streaming set to " \o OnOff(c.llm_config.isStreaming))]
    ELSE IF len_parts = 2 THEN
        LET c == [ctx EXCEPT !.llm_config.isStreaming = ~ @]
        IN  [ret |-> TRUE,
             ctx |-> Echo(c, "Streaming set to " \o OnOff(c.llm_config.isStreaming))]
    ELSE
        \* error: the usage line is printed, then the unconditional print
        \* reads new_value, which was never assigned
        [ret |-> FALSE,
         ctx |-> [Echo(ctx, "Usage: /config streaming [on|off]")
                    EXCEPT !.exception = "UnboundLocalError"]]

\* consume_command_config_thinking without the test of allowed_config
consume_command_config_thinking_ungated(ctx, sub_cmd, value, len_parts) ==
    IF value \in {"on", "off"} THEN
        LET c == [ctx EXCEPT !.llm_config.isThinking = (value = "on")]
        IN  [ret |-> TRUE,
             ctx |-> Echo(c, "Thinking set to " \o OnOff(c.llm_config.isThinking))]
    ELSE IF len_parts = 2 THEN
        LET c == [ctx EXCEPT !.llm_config.isThinking = ~ @]
        IN  [ret |-> TRUE,
             ctx |-> Echo(c, "Thinking set to " \o OnOff(c.llm_config.isThinking))]
    ELSE
        [ret |-> TRUE, ctx |-> Echo(ctx, "Usage: /config thinking [on|off]")]

\* consume_command_config_thinking; the guard on sub_cmd returns nothing,
\* so every sub_cmd is handled here
consume_command_config_thinking(ctx, sub_cmd, value, len_parts) ==
    IF ~ ctx.allowed_config.thinking THEN
        LET c == [Echo(ctx, ctx.llm_config.model \o " does not have thinking capabilities")
                    EXCEPT !.llm_config.isThinking = FALSE]
        IN  [ret |-> TRUE,
             ctx |-> Echo(c, "Thinking set to " \o OnOff(c.llm_config.isThinking))]
    ELSE IF value \in {"on", "off"} THEN
        LET c == [ctx EXCEPT !.llm_config.isThinking = (value = "on")]
        IN  [ret |-> TRUE,
             ctx |-> Echo(c, "Thinking set to " \o OnOff(c.llm_config.isThinking))]
    ELSE IF len_parts = 2 THEN
        LET c == [ctx EXCEPT !.llm_config.isThinking = ~ @]
        IN  [ret |-> TRUE,
             ctx |-> Echo(c, "Thinking set to " \o OnOff(c.llm_config.isThinking))]
    ELSE
        [ret |-> TRUE, ctx |-> Echo(ctx, "Usage: /config thinking [on|off]")]

UnknownConfigLine ==
    "Unknown /config command. Available: /config [model], /config streaming [on|off], /config thinking [on|off]"

\* consume_command_config
consume_command_config(ctx, cmd, selected, show) ==
    IF ~ StartsWithConfig(cmd) THEN [ret |-> FALSE, ctx |-> ctx]
    ELSE
    LET parts == Split(cmd)
        m == consume_command_config_model(ctx, parts, selected, show)
    IN  IF m.ret THEN m
        ELSE
        LET len_parts == Len(parts)
            sub_cmd == parts[2]
            value == IF len_parts >= 3 THEN parts[3] ELSE ""
            s == consume_command_config_streaming(ctx, sub_cmd, value, len_parts)
        IN  IF s.ctx.exception # "" \/ s.ret THEN s
            ELSE
            LET t == consume_command_config_thinking(ctx, sub_cmd, value, len_parts)
            IN  IF t.ret THEN t
                ELSE [ret |-> TRUE, ctx |-> Echo(ctx, UnknownConfigLine)]

\* consume_command whose /clear leaves the history as it is
consume_command_keeps_history(ctx, cmd, selected, show) ==
    LET c == consume_command_config(ctx, cmd, selected, show)
    IN  IF c.ctx.exception # "" \/ c.ret THEN c
        ELSE IF cmd = "/clear"
        THEN [ret |-> TRUE, ctx |-> Echo(ctx, "Context cleared:")]
        ELSE [ret |-> FALSE, ctx |-> ctx]

\* consume_command
consume_command(ctx, cmd, selected, show) ==
    LET c == consume_command_config(ctx, cmd, selected, show)
    IN  IF c.ctx.exception # "" \/ c.ret THEN c
        ELSE IF cmd = "/clear"
        THEN [ret |-> TRUE,
              ctx |-> Echo([ctx EXCEPT !.messages = <<>>], "Context cleared:")]
        ELSE [ret |-> FALSE, ctx |-> ctx]

-----------------------------------------------------------------------------
(* The session: main() and llm_interaction *)

ByeInputs == {"/bye", "/exit", "/quit"}

\* the AgentContext fields the handlers work on, before a new input is handled
Ctx ==
    [llm_config |-> llm_config, allowed_config |-> allowed_config,
     model_capabilities |-> model_capabilities, messages |-> messages,
     out |-> <<>>, exception |-> ""]

\* store what a handler left; an exception it raised is not caught by main
Store(c) ==
    /\ llm_config' = c.llm_config
    /\ allowed_config' = c.allowed_config
    /\ model_capabilities' = c.model_capabilities
    /\ messages' = c.messages
    /\ out' = c.out
    /\ exception' = c.exception
    /\ pc' = IF c.exception # "" THEN "crashed" ELSE "repl"

NoTurn ==
    /\ frames' = <<>>
    /\ chat_calls' = <<>>
    /\ tool_log' = <<>>

\* llm_interaction with the assistant message not recorded
append_response_dropped(msgs, llm_response) == msgs

\* llm_interaction with the tool results not recorded
append_tool_result_dropped(msgs, fun_name, result) == msgs

\* llm_interaction with the tool message put at the head of the history
append_tool_result_in_front(msgs, fun_name, result) ==
    IF result # ""
        THEN <<[role |-> "tool", tool_name |-> fun_name, content |-> result]>> \o msgs
        ELSE msgs

\* llm_interaction with a tool message appended for an empty result as well
append_tool_result_unconditional(msgs, fun_name, result) ==
    Append(msgs, [role |-> "tool", tool_name |-> fun_name, content |-> result])

\* llm_interaction recording the assistant message without its tool calls
append_response_without_calls(msgs, llm_response) ==
    Append(msgs, [llm_response EXCEPT !.tool_calls = <<>>])

\* llm_interaction: agent_context.messages.append(llm_response)
append_response(msgs, llm_response) == Append(msgs, llm_response)

\* llm_interaction: if result: agent_context.messages.append({"role": "tool", ...})
append_tool_result(msgs, fun_name, result) ==
    IF result # ""
        THEN Append(msgs, [role |-> "tool", tool_name |-> fun_name, content |-> result])
        ELSE msgs

\* an invocation of llm_interaction whose loop starts at the second tool call
FrameSkippingFirst(before) == [before |-> before, tool_calls |-> <<>>, i |-> 2]

\* a new invocation of llm_interaction
Frame(before) == [before |-> before, tool_calls |-> <<>>, i |-> 1]

Top == frames[Len(frames)]

\* LlmConfig.__init__ for DEFAULT_CONFIG
DEFAULT_CONFIG == [model |-> DEFAULT_MODEL, isThinking |-> TRUE, isStreaming |-> TRUE]

\* the default list of the parameter `messages` of AgentContext.__init__
DefaultList == 0

\* the objects made when the module is loaded: DEFAULT_CONFIG (configs[1]) and
\* the list that is the default value of `messages` (lists[DefaultList]);
\* no AgentContext is made with the default arguments yet
Imported ==
    [configs |-> <<DEFAULT_CONFIG>>,
     lists |-> [l \in {DefaultList} |-> <<>>],
     contexts |-> <<>>,
     actor |-> 0]

\* AgentContext.__init__ as main calls it, after tool discovery
Init ==
    /\ heap = Imported
    /\ llm_config = DEFAULT_CONFIG
    /\ allowed_config = [streaming |-> TRUE, thinking |-> TRUE]
    /\ model_capabilities = <<>>
    /\ native_tools = {"hello_tool"}
    /\ mcp_tools \in McpDiscoveries
    /\ messages = <<>>
    /\ pc = "start"
    /\ frames = <<>>
    /\ user_input = ""
    /\ chat_calls = <<>>
    /\ tool_log = <<>>
    /\ out = <<>>
    /\ exception = ""

\* main: await agent_context.load_model_capabilities() before the loop
MainLoadCapabilities ==
    /\ pc = "start"
    /\ \E show \in ShowResults : Store(load_model_capabilities(Ctx, show))
    /\ UNCHANGED <<tool_vars, turn_vars, user_input, heap>>

\* main: /bye, /exit, /quit
Bye ==
    /\ pc = "repl"
    /\ \E line \in UserInputs : line \in ByeInputs /\ user_input' = line
    /\ pc' = "exit"
    /\ out' = <<"Goodbye!">>
    /\ NoTurn
    /\ UNCHANGED <<config_vars, tool_vars, messages, exception, heap>>

ShowFailed == [ok |-> FALSE, capabilities |-> <<>>]

\* main: an input that consume_command handles (or dies on); selected and show
\* are what configure_model and llm_client.show answer if they are called
Command(line, selected, show) ==
    /\ pc = "repl"
    /\ line \notin ByeInputs
    /\ LET r == consume_command(Ctx, line, selected, show)
       IN  /\ r.ret \/ r.ctx.exception # ""
           /\ Store(r.ctx)
    /\ user_input' = line
    /\ NoTurn
    /\ UNCHANGED <<tool_vars, heap>>

\* /config, /config model: the model list is fetched and the user selects
ConfigModelCommand ==
    \E line \in UserInputs :
        /\ StartsWithConfig(line) /\ IsModelCommand(Split(line))
        /\ \/ Command(line, None, ShowFailed)
           \/ \E selected \in Models, show \in ShowResults : Command(line, selected, show)

\* every other /config line: no collaborator is called
ConfigCommand ==
    \E line \in UserInputs :
        /\ StartsWithConfig(line) /\ ~ IsModelCommand(Split(line))
        /\ Command(line, None, ShowFailed)

\* /clear
ClearCommand ==
    \E line \in UserInputs :
        /\ ~ StartsWithConfig(line)
        /\ Command(line, None, ShowFailed)

\* main reading a prompt while llm_interaction is still dispatching tools
UserTurnDuringTurn ==
    /\ pc \in {"repl", "tools"}
    /\ Len(messages) < MaxHistory + 1
    /\ \E line \in UserInputs \ ByeInputs :
          LET r == consume_command(Ctx, line, None, ShowFailed)
          IN  /\ ~ r.ret /\ r.ctx.exception = ""
              /\ messages' = Append(messages, [role |-> "user", content |-> line])
              /\ frames' = <<Frame(Len(messages) + 1)>>
              /\ user_input' = line
    /\ pc' = "llm_call"
    /\ chat_calls' = <<>>
    /\ tool_log' = <<>>
    /\ out' = <<>>
    /\ UNCHANGED <<config_vars, tool_vars, exception, heap>>

\* main: any other input is appended as a user message and llm_interaction is entered
UserTurn ==
    /\ pc = "repl"
    /\ Len(messages) < MaxHistory
    /\ \E line \in UserInputs \ ByeInputs :
          LET r == consume_command(Ctx, line, None, ShowFailed)
          IN  /\ ~ r.ret /\ r.ctx.exception = ""
              /\ messages' = Append(messages, [role |-> "user", content |-> line])
              /\ frames' = <<Frame(Len(messages) + 1)>>
              /\ user_input' = line
    /\ pc' = "llm_call"
    /\ chat_calls' = <<>>
    /\ tool_log' = <<>>
    /\ out' = <<>>
    /\ UNCHANGED <<config_vars, tool_vars, exception, heap>>

\* llm_interaction whose inference call asks for no thinking, whatever
\* isThinking is
LlmCallWithoutThinking(replies) ==
    /\ pc = "llm_call"
    /\ \E chunks \in replies :
          LET llm_response == llm_call(llm_config.isStreaming, chunks)
          IN  /\ messages' = append_response(messages, llm_response)
              /\ frames' = [frames EXCEPT ![Len(frames)].tool_calls = llm_response.tool_calls]
              /\ chat_calls' = Append(chat_calls,
                                       [model |-> llm_config.model,
                                        stream |-> llm_config.isStreaming,
                                        think |-> FALSE,
                                        n_messages |-> Len(messages),
                                        tools |-> get_all_tools(native_tools, mcp_tools),
                                        reply |-> chunks])
    /\ pc' = "tools"
    /\ UNCHANGED <<config_vars, tool_vars, tool_log, user_input, out, exception, heap>>

\* llm_interaction: llm_response = await llm_call(...); messages.append(llm_response)
LlmCall(replies) ==
    /\ pc = "llm_call"
    /\ \E chunks \in replies :
          LET llm_response == llm_call(llm_config.isStreaming, chunks)
          IN  /\ messages' = append_response(messages, llm_response)
              /\ frames' = [frames EXCEPT ![Len(frames)].tool_calls = llm_response.tool_calls]
              /\ chat_calls' = Append(chat_calls,
                                       [model |-> llm_config.model,
                                        stream |-> llm_config.isStreaming,
                                        think |-> llm_config.isThinking,
                                        n_messages |-> Len(messages),
                                        tools |-> get_all_tools(native_tools, mcp_tools),
                                        reply |-> chunks])
    /\ pc' = "tools"
    /\ UNCHANGED <<config_vars, tool_vars, tool_log, user_input, out, exception, heap>>

\* llm_interaction: one iteration of `for call in llm_response['tool_calls']`
CallTool ==
    /\ pc = "tools"
    /\ Top.i <= Len(Top.tool_calls)
    /\ \E tool_res \in McpResults :
          LET call == Top.tool_calls[Top.i]
              result == call_tool(native_tools, mcp_tools, call.name, call.arguments, tool_res)
          IN  /\ tool_log' = Append(tool_log,
                                     [frame |-> Len(frames), index |-> Top.i,
                                      name |-> call.name, arguments |-> call.arguments,
                                      via |-> result.via,
                                      is_error |-> (result.via = "mcp" /\ tool_res.isError),
                                      exc |-> result.exc, value |-> result.value,
                                      n_messages |-> Len(messages)])
              /\ IF result.exc # ""
                 THEN /\ pc' = "crashed"
                      /\ exception' = result.exc
                      /\ UNCHANGED <<messages, frames>>
                 ELSE /\ messages' = append_tool_result(messages, call.name, result.value)
                      /\ frames' = [frames EXCEPT ![Len(frames)].i = @ + 1]
                      /\ UNCHANGED <<pc, exception>>
    /\ UNCHANGED <<config_vars, tool_vars, user_input, chat_calls, out, heap>>

\* llm_interaction: if llm_response['tool_calls']: await llm_interaction(...)
Recurse ==
    /\ pc = "tools"
    /\ Top.i > Len(Top.tool_calls)
    /\ Top.tool_calls # <<>>
    /\ Len(frames) < MaxDepth
    /\ frames' = Append(frames, Frame(Len(messages)))
    /\ pc' = "llm_call"
    /\ UNCHANGED <<config_vars, tool_vars, messages, user_input, chat_calls, tool_log, out, exception, heap>>

\* llm_interaction that returns once the tool calls are dispatched, whether
\* the response carried any or not
ReturnWithoutRecursion ==
    /\ pc = "tools"
    /\ Top.i > Len(Top.tool_calls)
    /\ pc' = "repl"
    /\ UNCHANGED <<config_vars, tool_vars, messages, frames, user_input, chat_calls, tool_log, out, exception, heap>>

\* llm_interaction returns, and with it every invocation that recursed into it;
\* main goes back to the prompt
Return ==
    /\ pc = "tools"
    /\ Top.i > Len(Top.tool_calls)
    /\ Top.tool_calls = <<>>
    /\ pc' = "repl"
    /\ UNCHANGED <<config_vars, tool_vars, messages, frames, user_input, chat_calls, tool_log, out, exception, heap>>

Next ==
    \/ MainLoadCapabilities
    \/ Bye
    \/ ConfigModelCommand
    \/ ConfigCommand
    \/ ClearCommand
    \/ UserTurn
    \/ LlmCall(Replies)
    \/ CallTool
    \/ Recurse
    \/ Return

Spec == Init /\ [][Next]_vars

\* The session with its collaborators answering: an awaited inference call
\* gets its response, an awaited tool call its result (or its exception), and
\* the statement after an await is executed.
SpecLive ==
    /\ Init /\ [][Next]_vars
    /\ WF_vars(LlmCall(Replies))
    /\ WF_vars(CallTool)
    /\ WF_vars(Recurse)
    /\ WF_vars(Return)

-----------------------------------------------------------------------------
(* llm_call on its own: a session that has read its first prompt, in either *)
(* streaming mode, about to call the inference service, which may answer    *)
(* with up to MaxStream chunks.                                              *)

InitStream ==
    /\ \E show \in ShowResults, streaming \in BOOLEAN :
          LET c == load_model_capabilities(
                       [llm_config |-> DEFAULT_CONFIG,
                        allowed_config |-> [streaming |-> TRUE, thinking |-> TRUE],
                        model_capabilities |-> <<>>, messages |-> <<>>,
                        out |-> <<>>, exception |-> ""], show)
          IN  /\ llm_config = [c.llm_config EXCEPT !.isStreaming = streaming]
              /\ allowed_config = c.allowed_config
              /\ model_capabilities = c.model_capabilities
    /\ heap = Imported
    /\ native_tools = {"hello_tool"}
    /\ mcp_tools \in McpDiscoveries
    /\ messages = <<[role |-> "user", content |-> "hi"]>>
    /\ pc = "llm_call"
    /\ frames = <<Frame(1)>>
    /\ user_input = "hi"
    /\ chat_calls = <<>>
    /\ tool_log = <<>>
    /\ out = <<>>
    /\ exception = ""

NextStream == LlmCall(StreamReplies)

SpecStream == InitStream /\ [][NextStream]_vars

-----------------------------------------------------------------------------
(* AgentContext instances made with the default arguments.  A default       *)
(* argument is evaluated once, when the function is defined: every instance *)
(* that omits llm_config is given the object DEFAULT_CONFIG, and every      *)
(* instance that omits messages is given the same list.  heap.configs and   *)
(* heap.lists hold the objects, a context holds references to them;         *)
(* heap.actor is the context that took the latest step.                     *)

\* the two instances
Sessions == {1, 2}

\* AgentContext(llm_client, mcp_client)
AgentContext_init(h) ==
    [h EXCEPT !.contexts = Append(@,
        [llm_config |-> 1,
         messages |-> DefaultList,
         model_capabilities |-> <<>>,
         allowed_config |-> [streaming |-> TRUE, thinking |-> TRUE]])]

\* what context s reads through its references
SessionConfig(s) == heap.configs[heap.contexts[s].llm_config]

SessionMessages(s) == heap.lists[heap.contexts[s].messages]

\* the fields of context s the handlers work on
SessionCtx(s) ==
    [llm_config |-> SessionConfig(s),
     allowed_config |-> heap.contexts[s].allowed_config,
     model_capabilities |-> heap.contexts[s].model_capabilities,
     messages |-> SessionMessages(s),
     out |-> <<>>, exception |-> ""]

InitSessions ==
    /\ heap = AgentContext_init(AgentContext_init(Imported))
    /\ llm_config = DEFAULT_CONFIG
    /\ allowed_config = [streaming |-> TRUE, thinking |-> TRUE]
    /\ model_capabilities = <<>>
    /\ native_tools = {"hello_tool"}
    /\ mcp_tools = {"greet"}
    /\ messages = <<>>
    /\ pc = "start"
    /\ frames = <<>>
    /\ user_input = ""
    /\ chat_calls = <<>>
    /\ tool_log = <<>>
    /\ out = <<>>
    /\ exception = ""

\* the lines that make configure_model and llm_client.show answer
SelectsModel(line) == StartsWithConfig(line) /\ IsModelCommand(Split(line))

\* consume_command(agent_context, cmd) for context s.  The handlers assign to
\* the fields of agent_context.llm_config, the object the context refers to;
\* /clear binds agent_context.messages to a new list.
SessionCommand(s) ==
    /\ \E line \in UserInputs \ ByeInputs :
       \E selected \in (IF SelectsModel(line) THEN Models \cup {None} ELSE {None}),
          show \in (IF SelectsModel(line) THEN ShowResults ELSE {ShowFailed}) :
          LET r == consume_command(SessionCtx(s), line, selected, show)
              c == heap.contexts[s]
          IN  /\ r.ret /\ r.ctx.exception = ""
              /\ heap' =
                   [configs |-> [heap.configs EXCEPT ![c.llm_config] = r.ctx.llm_config],
                    lists |-> IF line = "/clear"
                                THEN [l \in DOMAIN heap.lists \cup {s} |->
                                         IF l = s THEN <<>> ELSE heap.lists[l]]
                                ELSE heap.lists,
                    contexts |-> [heap.contexts EXCEPT ![s] =
                                     [llm_config |-> c.llm_config,
                                      messages |-> IF line = "/clear" THEN s ELSE c.messages,
                                      model_capabilities |-> r.ctx.model_capabilities,
                                      allowed_config |-> r.ctx.allowed_config]],
                    actor |-> s]
    /\ UNCHANGED main_vars

\* main: agent_context.messages.append({"role": "user", "content": prompt})
\* for context s: the list the context refers to grows
SessionUserMessage(s) ==
    /\ Len(SessionMessages(s)) < MaxHistory
    /\ \E line \in UserInputs \ ByeInputs :
          LET r == consume_command(SessionCtx(s), line, None, ShowFailed)
          IN  /\ ~ r.ret /\ r.ctx.exception = ""
              /\ heap' = [heap EXCEPT
                            !.lists[heap.contexts[s].messages] =
                                Append(@, [role |-> "user", content |-> line]),
                            !.actor = s]
    /\ UNCHANGED main_vars

NextSessions ==
    \/ \E s \in Sessions : SessionCommand(s)
    \/ \E s \in Sessions : SessionUserMessage(s)

SpecSessions == InitSessions /\ [][NextSessions]_vars

-----------------------------------------------------------------------------
(* Properties *)

Range(seq) == { seq[i] : i \in DOMAIN seq }

\* the tool-call requests the service sent in answer to the j-th inference call
Requested(j) == ConcatToolCalls(chat_calls[j].reply)

\* the dispatches of invocation j that returned a non-empty result
NonEmptyResults(j) ==
    { e \in Range(tool_log) : e.frame = j /\ e.exc = "" /\ e.value # "" }

\* the entry of tool_log is followed in history by its tool message
Recorded(e) ==
    /\ Len(messages) > e.n_messages
    /\ messages[e.n_messages + 1].role = "tool"
    /\ messages[e.n_messages + 1].tool_name = e.name
    /\ messages[e.n_messages + 1].content = e.value

\* C1: in streaming mode the content of the assistant message llm_call returns
\* is the concatenation of the content fragments in arrival order, the string
\* the non-streaming branch records for the same response.
C1_StreamedContentIsConcatenation ==
    \A k \in DOMAIN chat_calls :
        chat_calls[k].stream =>
            /\ Len(messages) > chat_calls[k].n_messages
            /\ messages[chat_calls[k].n_messages + 1].content
                   = ConcatContent(chat_calls[k].reply)
            /\ messages[chat_calls[k].n_messages + 1].content
                   = llm_call(FALSE, chat_calls[k].reply).content

\* C2: a request for a tool in neither tool set yields the string
\* "Unknown tool: <name>", recorded as a tool message, and the turn goes on.
C2_UnknownToolIsReported ==
    \A e \in Range(tool_log) :
        e.name \notin native_tools \cup mcp_tools =>
            /\ e.exc = ""
            /\ e.value = "Unknown tool: " \o e.name
            /\ Recorded(e)
            /\ pc # "crashed"

\* C3: a remote invocation answered with isError yields an error string,
\* recorded as a tool message, and the turn goes on.
C3_RemoteErrorIsReported ==
    \A e \in Range(tool_log) :
        e.is_error =>
            /\ e.exc = ""
            /\ e.value # ""
            /\ Recorded(e)
            /\ pc # "crashed"

\* C4: a local tool that raises yields an error string, recorded as a tool
\* message; the exception does not leave llm_interaction.
C4_LocalFailureIsReported ==
    \A e \in Range(tool_log) :
        (e.name \in native_tools /\ ~ (DOMAIN e.arguments \subseteq {"model_name"})) =>
            /\ e.exc = ""
            /\ e.value # ""
            /\ Recorded(e)
            /\ pc # "crashed" /\ exception = ""

\* C5: when the response carries no tool call, the invocation of
\* llm_interaction has made one inference call, appended one assistant message
\* and is returning or has returned: the history is one longer than at entry.
C5_NoToolCallAppendsOne ==
    (/\ pc \in {"tools", "repl"}
     /\ frames # <<>>
     /\ Len(chat_calls) = Len(frames)
     /\ Requested(Len(chat_calls)) = <<>>)
    =>  /\ Len(messages) = Top.before + 1
        /\ messages[Len(messages)].role = "assistant"
        /\ messages[Len(messages)].tool_calls = <<>>
        /\ Cardinality({ k \in DOMAIN chat_calls :
                            chat_calls[k].n_messages >= Top.before }) = 1
        /\ Top.tool_calls = <<>> /\ Top.i > Len(Top.tool_calls)

C5_Witness ==
    /\ pc = "repl"
    /\ Len(frames) = 1
    /\ Len(chat_calls) = 1
    /\ Requested(1) = <<>>
    /\ Len(messages) = 4

C6_Invocation(j) ==
    LET k == Len(Requested(j))
    IN  (k >= 1 /\ Cardinality(NonEmptyResults(j)) = k) =>
            IF j < Len(frames)
            THEN /\ frames[j + 1].before = frames[j].before + 1 + k
                 /\ (j + 1 \in DOMAIN chat_calls =>
                        chat_calls[j + 1].n_messages = frames[j].before + 1 + k)
            ELSE /\ pc = "tools"
                 /\ Len(messages) = frames[j].before + 1 + k
                 /\ Top.tool_calls # <<>> /\ Top.i > Len(Top.tool_calls)

\* C6: when the response carries k >= 1 tool calls that all give a non-empty
\* result, the history is 1 + k longer than at entry when llm_interaction
\* recurses, and the recursion's inference call is made on that history.
C6_ToolCallsAppendOnePlusK ==
    \A j \in DOMAIN chat_calls : C6_Invocation(j)

C6_Witness ==
    /\ Len(frames) = 2
    /\ Len(chat_calls) = 2
    /\ Len(Requested(1)) = 2
    /\ Cardinality(NonEmptyResults(1)) = 2

\* the first response of the turn: empty content, one tool call
C7_First ==
    /\ Len(chat_calls) >= 1
    /\ ConcatContent(chat_calls[1].reply) = ""
    /\ Len(Requested(1)) = 1

\* ... whose tool gave a non-empty result, then a response with content and
\* no tool call
C7_Scenario ==
    /\ C7_First
    /\ NonEmptyResults(1) # {}
    /\ Len(chat_calls) >= 2
    /\ ConcatContent(chat_calls[2].reply) # ""
    /\ Requested(2) = <<>>

\* C7: in that scenario the history gains an assistant message carrying the
\* tool call, the tool message with the result and a final assistant message,
\* in this order, and the loop returns with three messages more.
C7_ToolThenAnswerAddsThree ==
    /\ (C7_First /\ pc = "repl") => Len(chat_calls) >= 2
    /\ C7_Scenario =>
          LET b == frames[1].before
              e == CHOOSE x \in NonEmptyResults(1) : TRUE
          IN  /\ Len(messages) = b + 3
              /\ messages[b + 1].role = "assistant"
              /\ messages[b + 1].content = ""
              /\ messages[b + 1].tool_calls = Requested(1)
              /\ messages[b + 2].role = "tool"
              /\ messages[b + 2].tool_name = Requested(1)[1].name
              /\ messages[b + 2].content = e.value
              /\ messages[b + 3].role = "assistant"
              /\ messages[b + 3].content # ""
              /\ messages[b + 3].tool_calls = <<>>
              /\ pc \in {"tools", "repl"}
              /\ Len(frames) = 2 /\ Top.tool_calls = <<>>

C7_Witness ==
    /\ C7_Scenario
    /\ pc = "repl"
    /\ Len(messages) = frames[1].before + 3

ThinkingCommands == {"/config thinking on", "/config thinking"}

\* C8: with thinking not allowed, `config thinking on` and the bare toggle
\* leave isThinking false and tell the user the model cannot think.
C8_ThinkingRejectedWhenNotAllowed ==
    (/\ pc = "repl"
     /\ user_input \in ThinkingCommands
     /\ ~ allowed_config.thinking)
    =>  /\ ~ llm_config.isThinking
        /\ (llm_config.model \o " does not have thinking capabilities") \in Range(out)

C8_Witness ==
    /\ pc = "repl"
    /\ user_input = "/config thinking on"
    /\ ~ allowed_config.thinking
    /\ ~ llm_config.isThinking
    /\ model_capabilities = <<"completion", "tools">>

UnknownTargetCommands == {"/config foo", "/config foo on"}

\* C9: a config command whose target is not model, streaming or thinking
\* changes nothing of the configuration and reports an unknown command.
C9_UnknownTargetChangesNothing ==
    [][ (pc = "repl" /\ user_input' \in UnknownTargetCommands /\ pc' # "llm_call")
        => (/\ UNCHANGED config_vars
            /\ UnknownConfigLine \in Range(out')) ]_vars

\* C10: `config streaming <value>` with a value other than on and off changes
\* nothing of the configuration, reports the usage and returns to the prompt.
C10_BadStreamingValueIsRejected ==
    [][ (pc = "repl" /\ user_input' = "/config streaming maybe")
        => (/\ UNCHANGED config_vars
            /\ "Usage: /config streaming [on|off]" \in Range(out')
            /\ pc' = "repl" /\ exception' = "") ]_vars

\* the AgentContext fields as the step leaves them, for a handler to work on
CtxAfter ==
    [llm_config |-> llm_config', allowed_config |-> allowed_config',
     model_capabilities |-> model_capabilities', messages |-> messages',
     out |-> <<>>, exception |-> ""]

\* C11: the streaming command without a value inverts isStreaming and leaves
\* model, isThinking and allowed_config as they were; given a second time
\* it brings the whole configuration back to what it was before the first.
C11_StreamingToggleTwiceRestores ==
    [][ (pc = "repl" /\ user_input' = "/config streaming")
        => LET again == consume_command(CtxAfter, "/config streaming", None, ShowFailed)
           IN  /\ pc' = "repl"
               /\ llm_config' = [llm_config EXCEPT !.isStreaming = ~ @]
               /\ UNCHANGED <<allowed_config, model_capabilities>>
               /\ again.ret /\ again.ctx.exception = ""
               /\ again.ctx.llm_config = llm_config
               /\ again.ctx.allowed_config = allowed_config ]_vars

C11_Witness ==
    /\ pc = "repl"
    /\ user_input = "/config streaming"
    /\ out = <<"Streaming set to on">>
    /\ ~ llm_config.isThinking
    /\ messages # <<>>

\* C12: `config streaming on|off` sets isStreaming to the value asked for,
\* and so does `config thinking on|off` with isThinking while thinking is
\* allowed, whatever the flag was; the rest of the configuration is left
\* alone, and the same command given again changes nothing.
C12_ExplicitValueIsSet ==
    [][ (/\ pc = "repl"
         /\ \/ user_input' \in {"/config streaming on", "/config streaming off"}
            \/ /\ user_input' \in {"/config thinking on", "/config thinking off"}
               /\ allowed_config.thinking)
        => LET asked == Split(user_input')[3] = "on"
               again == consume_command(CtxAfter, user_input', None, ShowFailed)
           IN  /\ pc' = "repl"
               /\ llm_config' = IF Split(user_input')[2] = "streaming"
                                   THEN [llm_config EXCEPT !.isStreaming = asked]
                                   ELSE [llm_config EXCEPT !.isThinking = asked]
               /\ UNCHANGED <<allowed_config, model_capabilities>>
               /\ again.ret /\ again.ctx.exception = ""
               /\ again.ctx.llm_config = llm_config'
               /\ again.ctx.allowed_config = allowed_config' ]_vars

C12_Witness ==
    /\ pc = "repl"
    /\ user_input = "/config streaming on"
    /\ llm_config.isStreaming
    /\ ~ llm_config.isThinking
    /\ allowed_config.thinking
    /\ out = <<"Streaming set to on">>

\* C13: a request for a name that is in both tool sets runs the local
\* callable: the result is the one hello_tool computes from the arguments,
\* and the remote provider is not called.
C13_CollisionRunsLocal ==
    \A e \in Range(tool_log) :
        e.name \in native_tools \cap mcp_tools =>
            /\ e.via = "native"
            /\ ~ e.is_error
            /\ e.exc = hello_tool(e.arguments).exc
            /\ e.value = hello_tool(e.arguments).value

C13_Witness ==
    /\ mcp_tools = {"greet", "hello_tool"}
    /\ \E e \in Range(tool_log) :
          /\ e.name = "hello_tool"
          /\ e.via = "native"
          /\ e.value = "Hello from hello_tool by Llm Assistant"
          /\ Recorded(e)

\* C14: the registry get_all_tools hands to the inference call maps a name
\* that is in both tool sets to the local entry, the one call_tool runs.
C14_MergedRegistryPrefersLocal ==
    \A k \in DOMAIN chat_calls :
        \A n \in native_tools \cap mcp_tools :
            /\ n \in DOMAIN chat_calls[k].tools
            /\ chat_calls[k].tools[n] = "native"
            /\ \A e \in Range(tool_log) : e.name = n => e.via = chat_calls[k].tools[n]

\* the capability list carries a tag that _update_allowed_config takes for
\* support of thinking
HasThinkingTag(caps) ==
    \E i \in DOMAIN caps : Lower(caps[i]) \in {"think", "thinking"}

\* what load_model_capabilities prints when the query succeeded, and failed
RefreshSucceeded == (llm_config.model \o " has capabilites") \in Range(out)

RefreshFailed ==
    ("Failed to retrieve capabilities for model '" \o llm_config.model \o "'")
        \in Range(out)

\* C15: when load_model_capabilities has completed, thinking is allowed
\* exactly if the stored capabilities carry a thinking tag; after a failed
\* query the capabilities are empty, thinking is not allowed and isThinking
\* is false.
C15_RefreshSyncsAllowedThinking ==
    (pc = "repl" /\ (RefreshSucceeded \/ RefreshFailed))
    =>  /\ allowed_config.thinking <=> HasThinkingTag(model_capabilities)
        /\ RefreshFailed =>
              /\ model_capabilities = <<>>
              /\ ~ allowed_config.thinking
              /\ ~ llm_config.isThinking

ModelCommands == {"/config", "/config model"}

\* C16: a model command that selects a model refreshes the capabilities for
\* that model; if isThinking was true and the capabilities now stored carry no
\* thinking tag, isThinking is false afterwards; isStreaming is unchanged.
C16_ModelChangeRefreshesAndDowngrades ==
    [][ (/\ pc = "repl"
         /\ user_input' \in ModelCommands
         /\ ("Model set to: " \o llm_config'.model) \in Range(out'))
        => (/\ pc' = "repl"
            /\ RefreshSucceeded' \/ RefreshFailed'
            /\ (llm_config.isThinking /\ ~ HasThinkingTag(model_capabilities'))
                  => ~ llm_config'.isThinking
            /\ llm_config'.isStreaming = llm_config.isStreaming) ]_vars

\* C17: /clear leaves the history empty and the configuration and both tool
\* sets as they were, whatever the state it is given in; the user turn that
\* follows it starts from a history holding that user message alone.
C17_ClearEmptiesHistoryOnly ==
    [][ /\ (pc = "repl" /\ user_input' = "/clear")
              => (/\ messages' = <<>>
                  /\ UNCHANGED <<config_vars, tool_vars>>
                  /\ pc' = "repl" /\ exception' = ""
                  /\ "Context cleared:" \in Range(out'))
        /\ (pc = "repl" /\ user_input = "/clear" /\ pc' = "llm_call")
              => (/\ messages' = <<[role |-> "user", content |-> user_input']>>
                  /\ UNCHANGED <<config_vars, tool_vars>>) ]_vars

C17_Witness ==
    /\ pc = "repl"
    /\ user_input = "/clear"
    /\ messages = <<>>
    /\ out = <<"Context cleared:">>
    /\ ~ llm_config.isStreaming
    /\ llm_config.model # DEFAULT_MODEL
    /\ mcp_tools = {"greet", "hello_tool"}

\* C18: of two AgentContext instances made with the default arguments, a
\* command given to one, or a message appended to the history of one, never
\* changes the configuration or the history the other one reads.
C18_SessionsShareNothing ==
    [][ \A s \in DOMAIN heap.contexts :
            heap'.actor # s =>
                /\ SessionConfig(s)' = SessionConfig(s)
                /\ SessionMessages(s)' = SessionMessages(s) ]_vars

\* the i-th dispatch of the turn is the one the loop of llm_interaction makes
\* next: of the request at its index, on a history that holds the assistant
\* message and what the dispatches before it in the response appended
C19_InOrder(i) ==
    LET e == tool_log[i]
    IN  /\ e.frame \in DOMAIN chat_calls /\ e.frame \in DOMAIN frames
        /\ e.index \in DOMAIN Requested(e.frame)
        /\ e.name = Requested(e.frame)[e.index].name
        /\ e.arguments = Requested(e.frame)[e.index].arguments
        /\ IF e.index = 1
           THEN /\ e.n_messages = frames[e.frame].before + 1
                /\ messages[e.n_messages].role = "assistant"
                /\ messages[e.n_messages].tool_calls = Requested(e.frame)
                /\ i > 1 => tool_log[i - 1].frame < e.frame
           ELSE /\ i > 1
                /\ tool_log[i - 1].frame = e.frame
                /\ tool_log[i - 1].index = e.index - 1
                /\ tool_log[i - 1].exc = ""
                /\ e.n_messages = tool_log[i - 1].n_messages
                                    + (IF tool_log[i - 1].value # "" THEN 1 ELSE 0)
        /\ (e.exc = "" /\ e.value # "") => Recorded(e)

\* C19: the tool calls of one response are dispatched one after the other in
\* the order the response lists them; a dispatch starts only when the result
\* of the one before is obtained and, if not empty, appended; the tool
\* messages stand in the history in request order, after the assistant message.
C19_ToolCallsDispatchedInOrder ==
    \A i \in DOMAIN tool_log : C19_InOrder(i)

C19_Witness ==
    /\ Len(tool_log) = 2
    /\ tool_log[1].frame = 1 /\ tool_log[2].frame = 1
    /\ tool_log[1].name = "hello_tool" /\ tool_log[2].name = "greet"
    /\ tool_log[1].value # "" /\ tool_log[2].value # ""
    /\ Recorded(tool_log[1]) /\ Recorded(tool_log[2])
    /\ tool_log[2].n_messages = tool_log[1].n_messages + 1

\* invocation j has dispatched every tool call of its response
C20_Dispatched(j) ==
    { e \in Range(tool_log) : e.frame = j /\ e.exc = "" }

C20_Invocation(j) ==
    LET k == Len(Requested(j))
        m == Cardinality(NonEmptyResults(j))
        b == frames[j].before
    IN  (k >= 1 /\ Cardinality(C20_Dispatched(j)) = k) =>
            /\ Len(messages) >= b + 1 + m
            /\ \A n \in (b + 2)..(b + 1 + m) : messages[n].role = "tool"
            /\ IF j < Len(frames)
               THEN /\ frames[j + 1].before = b + 1 + m
                    /\ (j + 1 \in DOMAIN chat_calls =>
                           chat_calls[j + 1].n_messages = b + 1 + m)
               ELSE /\ pc = "tools"
                    /\ Len(messages) = b + 1 + m
                    /\ Top.tool_calls # <<>> /\ Top.i > Len(Top.tool_calls)

TurnReturned == pc = "repl" /\ frames # <<>>

\* the tool calls of the latest response are dispatched and the recursion
\* that follows would be the inference call past MaxDepth
DepthReached ==
    /\ pc = "tools"
    /\ Len(frames) = MaxDepth
    /\ Top.tool_calls # <<>>
    /\ Top.i > Len(Top.tool_calls)

C21_ReturnsOnEmptyToolCalls ==
    /\ \A j \in DOMAIN chat_calls :
          /\ Requested(j) = <<>> => j = Len(chat_calls)
          /\ messages[chat_calls[j].n_messages + 1].tool_calls = Requested(j)
    /\ TurnReturned =>
          /\ Len(chat_calls) = Len(frames)
          /\ Requested(Len(chat_calls)) = <<>>
          /\ Len(chat_calls)
               = 1 + Cardinality({ j \in DOMAIN chat_calls : Requested(j) # <<>> })
    /\ (pc = "tools" /\ Top.i > Len(Top.tool_calls) /\ Top.tool_calls # <<>>)
          => ~ ENABLED Return

\* C21: llm_interaction returns exactly when a response carries no tool call:
\* no inference call follows such a response in the turn, a returned turn made
\* one inference call more than it got tool-requesting responses, and a turn
\* whose tool calls all return and whose model comes to answer without tool
\* calls (within MaxDepth responses) does return.
C21_LoopTerminates ==
    /\ [] C21_ReturnsOnEmptyToolCalls
    /\ (pc = "llm_call") ~> (TurnReturned \/ pc = "crashed" \/ DepthReached)

C21_Witness ==
    /\ TurnReturned
    /\ Len(chat_calls) = 2
    /\ Requested(1) # <<>>
    /\ Requested(2) = <<>>

\* C22: an inference call of a turn is made on a history strictly longer than
\* the one the call before it was made on: the assistant message of that
\* call, at least, stands between them.
C22_RecursionSeesLongerHistory ==
    /\ \A j \in DOMAIN chat_calls :
          j > 1 =>
             LET n == chat_calls[j - 1].n_messages
             IN  /\ chat_calls[j].n_messages > n
                 /\ frames[j].before = chat_calls[j].n_messages
                 /\ frames[j].before > frames[j - 1].before
                 /\ messages[n + 1].role = "assistant"
                 /\ messages[n + 1].tool_calls = Requested(j - 1)
    /\ \A j \in DOMAIN frames :
          j > 1 => frames[j].before > frames[j - 1].before

C22_Witness ==
    /\ Len(chat_calls) = 2
    /\ Len(frames) = 2
    /\ chat_calls[2].n_messages = chat_calls[1].n_messages + 1
    /\ messages[chat_calls[2].n_messages].role = "assistant"
    /\ Len(messages) = chat_calls[2].n_messages + 1

\* the n-th message answers a request of an assistant message before it
C23_Answers(n) ==
    \E a \in 1..(n - 1) :
        /\ messages[a].role = "assistant"
        /\ \E r \in Range(messages[a].tool_calls) : r.name = messages[n].tool_name

\* C23: in every reachable state every tool message of the history carries
\* the name of a tool, and an assistant message earlier in the history
\* carries a request for that tool.
C23_ToolMessageFollowsItsRequest ==
    \A n \in DOMAIN messages :
        messages[n].role = "tool" =>
            /\ "tool_name" \in DOMAIN messages[n]
            /\ messages[n].tool_name # ""
            /\ C23_Answers(n)

C23_Witness ==
    /\ Len(messages) >= 4
    /\ messages[3].role = "tool" /\ messages[3].tool_name = "hello_tool"
    /\ messages[4].role = "tool" /\ messages[4].tool_name = "greet"
    /\ C23_Answers(3) /\ C23_Answers(4)

IsPrefix(a, b) == Len(a) <= Len(b) /\ SubSeq(b, 1, Len(a)) = a

\* C24: every step other than /clear leaves the history it found as a prefix
\* of the history it leaves: nothing appended is removed, moved or changed.
C24_HistoryIsAppendOnly ==
    [][ ~ (pc = "repl" /\ user_input' = "/clear")
        => IsPrefix(messages, messages') ]_vars

C24_Witness ==
    /\ pc = "repl"
    /\ user_input = "/config thinking off"
    /\ Len(messages) = 4
    /\ messages[3].role = "tool"

\* llm_interaction is running
InTurn == pc \in {"llm_call", "tools"}

\* the history of a running or returned turn: the user message that started
\* it, then assistant and tool messages only
C25_TurnBody ==
    /\ frames[1].before \in DOMAIN messages
    /\ messages[frames[1].before].role = "user"
    /\ messages[frames[1].before].content = user_input
    /\ \A n \in DOMAIN messages :
          n > frames[1].before => messages[n].role \in {"assistant", "tool"}

\* C25: while llm_interaction runs, recursion included, no input is read and
\* no command is applied: the steps append assistant and tool messages only,
\* and the turn ends on an assistant message without tool calls.
C25_TurnsDoNotInterleave ==
    [][ /\ InTurn =>
              /\ user_input' = user_input
              /\ UNCHANGED <<config_vars, tool_vars>>
              /\ pc' \in {"llm_call", "tools", "repl", "crashed"}
              /\ IsPrefix(messages, messages')
              /\ Len(messages') <= Len(messages) + 1
              /\ Len(messages') = Len(messages) + 1 =>
                    messages'[Len(messages')].role \in {"assistant", "tool"}
              /\ pc' = "repl" =>
                    /\ messages'[Len(messages')].role = "assistant"
                    /\ messages'[Len(messages')].tool_calls = <<>>
        /\ (InTurn \/ TurnReturned)' => C25_TurnBody' ]_vars

C25_Witness ==
    /\ TurnReturned
    /\ C25_TurnBody
    /\ Len(messages) = frames[1].before + 4
    /\ frames[1].before = 1
    /\ ~ llm_config.isStreaming

\* C26: llm_interaction leaves llm_config, allowed_config and the
\* capabilities as it found them, and every inference call of the turn is
\* made with the model, stream and think of that configuration.
C26_LoopKeepsConfiguration ==
    /\ [][ InTurn => UNCHANGED config_vars ]_vars
    /\ [] (\A j \in DOMAIN chat_calls :
              /\ chat_calls[j].model = llm_config.model
              /\ chat_calls[j].stream = llm_config.isStreaming
              /\ chat_calls[j].think = llm_config.isThinking)

C26_Witness ==
    /\ TurnReturned
    /\ Len(chat_calls) = 2
    /\ chat_calls[1].model # DEFAULT_MODEL
    /\ chat_calls[2].think /\ ~ chat_calls[2].stream
    /\ llm_config.isThinking /\ ~ llm_config.isStreaming

\* the dispatches of the idx-th request of the response invocation j received
C27_DispatchesOf(j, idx) ==
    { i \in DOMAIN tool_log : tool_log[i].frame = j /\ tool_log[i].index = idx }

\* the loop over the tool calls of invocation j has run to its end
C27_LoopDone(j) ==
    \/ j < Len(frames)
    \/ /\ j = Len(frames)
       /\ pc \in {"tools", "repl"}
       /\ frames[j].i > Len(frames[j].tool_calls)

C28_StreamedToolCallsAndThinkingConcatenate ==
    \A k \in DOMAIN chat_calls :
        chat_calls[k].stream =>
            /\ Len(messages) > chat_calls[k].n_messages
            /\ messages[chat_calls[k].n_messages + 1].tool_calls
                   = ConcatToolCalls(chat_calls[k].reply)
            /\ messages[chat_calls[k].n_messages + 1].thinking
                   = ConcatThinking(chat_calls[k].reply)

\* C29: in every reachable state isThinking implies that thinking is
\* allowed, and streaming is allowed.
C29_ThinkingOnlyWhenAllowed ==
    /\ llm_config.isThinking => allowed_config.thinking
    /\ allowed_config.streaming

C29_Witness ==
    /\ pc = "repl"
    /\ user_input \in ModelCommands
    /\ RefreshSucceeded
    /\ ~ HasThinkingTag(model_capabilities)
    /\ ~ allowed_config.thinking
    /\ ~ llm_config.isThinking
    /\ ("Thinking set to off") \in Range(out)

====
